---- MODULE Spec2Model ----
(***************************************************************************)
(* Pass prediction and recording scheduling of the open-weather automatic  *)
(* ground station: tle.js (detection, merge, save), scheduler.js (timer    *)
(* driven recording) and the cron driven scheduler of start_scheduler.sh.  *)
(*                                                                         *)
(* Time is counted in whole minutes.  A calendar day has DayLen minutes;   *)
(* a pass stores its start as the pair (date, time) the code formats with  *)
(* 'dd LLL yyyy' and 'HH:mm'.  Elevations are carried in thousandths of a  *)
(* degree and distances in thousandths of a metre, so that toFixed(2) is   *)
(* a rounding and not the identity.                                        *)
(*                                                                         *)
(* Spec is the scheduler and the schedule file under crashes.  The pure    *)
(* parts are exercised on drawn inputs: LabSpec (merge), DetSpec           *)
(* (detection and buffering), StoSpec (save and load), SelSpec (selection  *)
(* of the day's top passes).                                               *)
(***************************************************************************)
EXTENDS Integers, Sequences, FiniteSets, TLC

\* ---------------------------------------------------------------- bounds
\* Last minute the clock reaches.
MaxTime == 5
\* Minutes in one calendar day of the model.
DayLen == 4
\* Process crashes (power cuts) allowed in one behaviour.
MaxCrashes == 2
\* Longest incoming batch and longest initial store of the merge laboratory.
MaxBatch == 2
\* Largest store the merge laboratory still merges into.
MaxStore == 2
\* Longest sample sequence (detection window, in minutes) of the detection
\* laboratory.
MaxSamples == 4
\* Largest bufferMinutes the detection laboratory applies.
MaxBuffer == 2
\* Longest array of passes the selection laboratory selects from.
MaxOffered == 3
\* Largest numberOfPassesPerDay the selection laboratory asks for.
MaxTop == 2
\* Most processPasses calls a cron process has pending at once.
MaxInflight == 2

\* ---------------------------------------------------------- configuration
\* The settings object: satellites in the key order of noaaFrequencies,
\* their frequencies, buffer, propagation window (in minutes of the model),
\* range threshold (thousandths) and passes recorded per day.
config ==
    [ satellites           |-> <<"NOAA 15", "NOAA 19">>,
      noaaFrequencies      |-> [s \in {"NOAA 15", "NOAA 19"} |->
                                   IF s = "NOAA 15" THEN "137.62M" ELSE "137.1M"],
      bufferMinutes        |-> 1,
      daysToPropagate      |-> 6,
      maxDistance          |-> 5000,
      numberOfPassesPerDay |-> 2 ]

Sats == {"NOAA 15", "NOAA 19"}

\* ------------------------------------------------------------------ orbit
\* What satellite.propagate and geolib.getDistance yield for a satellite at
\* minute t: pos = FALSE when the propagator returns no position.  NOAA 19
\* is within range during minutes 2..3, NOAA 15 during minutes 3..4, and
\* NOAA 19 comes back within range at minute 6.
Sky(sat, t) ==
    CASE sat = "NOAA 19" /\ t = 2 -> [pos |-> TRUE, distance |-> 4000, elevation |-> 31004]
      [] sat = "NOAA 19" /\ t = 3 -> [pos |-> TRUE, distance |-> 3104, elevation |-> 41996]
      [] sat = "NOAA 15" /\ t = 3 -> [pos |-> TRUE, distance |-> 4500, elevation |-> 9504]
      [] sat = "NOAA 15" /\ t = 4 -> [pos |-> TRUE, distance |-> 4995, elevation |-> 20001]
      [] sat = "NOAA 19" /\ t = 6 -> [pos |-> TRUE, distance |-> 4000, elevation |-> 15000]
      [] OTHER                    -> [pos |-> TRUE, distance |-> 9000, elevation |-> -5000]

\* ------------------------------------------------------------- formatting
\* toFormat('dd LLL yyyy') and toFormat('HH:mm') of a minute count.
FormatDate(t) == t \div DayLen
FormatTime(t) == t % DayLen

\* new Date(`${date} ${time}`) and DateTime.fromFormat(..., 'dd LLL yyyy HH:mm').
RecordTime(p) == p.date * DayLen + p.time

\* Number.prototype.toFixed(2) of a value given in thousandths: the result,
\* in hundredths, is the nearest one, a tie going away from zero.
\* The string is carried as <<"fixed", hundredths>>.
ToFixed2(x) == <<"fixed", IF x < 0 THEN -((-x + 5) \div 10) ELSE (x + 5) \div 10>>

\* toFixed(2) of the quotient num / den (den > 0), num in thousandths.
ToFixed2Ratio(num, den) ==
    <<"fixed", IF num < 0 THEN -((2 * (-num) + 10 * den) \div (20 * den))
                          ELSE (2 * num + 10 * den) \div (20 * den)>>

RECURSIVE SumSeq(_)
SumSeq(s) == IF s = <<>> THEN 0 ELSE Head(s) + SumSeq(Tail(s))

\* Math.max(...xs) and Math.min(...xs) of a non-empty array.
MathMax(xs) == CHOOSE m \in {xs[i] : i \in 1..Len(xs)} : \A i \in 1..Len(xs) : xs[i] <= m
MathMin(xs) == CHOOSE m \in {xs[i] : i \in 1..Len(xs)} : \A i \in 1..Len(xs) : m <= xs[i]

\* -------------------------------------------------------------- detection
\* The raw pass the loop pushes when a pass closes inside the window.
ClosedPass(passStart, t, elevations, distances) ==
    [ start        |-> passStart,
      end          |-> t,
      maxElevation |-> ToFixed2(MathMax(elevations)),
      avgElevation |-> ToFixed2Ratio(SumSeq(elevations), Len(elevations)),
      avgDistance  |-> ToFixed2Ratio(SumSeq(distances), Len(distances)),
      minDistance  |-> ToFixed2(MathMin(distances)) ]

\* An open pass ended at its last in-range sample, not at the window end.
OpenPassAtLastSample(passStart, t, elevations) ==
    [ start        |-> passStart,
      end          |-> passStart + Len(elevations) - 1,
      maxElevation |-> ToFixed2(MathMax(elevations)),
      avgElevation |-> ToFixed2Ratio(SumSeq(elevations), Len(elevations)),
      avgDistance  |-> <<>>,
      minDistance  |-> <<>> ]

\* The raw pass pushed after the loop when the satellite is still in range:
\* it carries no distance aggregates.
OpenPass(passStart, t, elevations) ==
    [ start        |-> passStart,
      end          |-> t,
      maxElevation |-> ToFixed2(MathMax(elevations)),
      avgElevation |-> ToFixed2Ratio(SumSeq(elevations), Len(elevations)),
      avgDistance  |-> <<>>,
      minDistance  |-> <<>> ]

\* The while loop of findSatellitePasses over samples[i..], sample i taken at
\* minute t0 + i - 1.  passStart is <<>> for null and <<t>> for a DateTime.
RECURSIVE ScanSamples(_, _, _, _, _, _, _)
ScanSamples(samples, t0, i, passStart, elevations, distances, passes) ==
    IF i > Len(samples)
    THEN IF passStart # <<>>
         THEN Append(passes, OpenPass(passStart[1], t0 + Len(samples), elevations))
         ELSE passes
    ELSE LET s == samples[i]
             t == t0 + i - 1
         IN  IF ~s.pos
             THEN ScanSamples(samples, t0, i + 1, passStart, elevations, distances, passes)
             ELSE IF s.distance <= config.maxDistance
             THEN LET opened == passStart = <<>>
                      els    == IF opened THEN <<>> ELSE elevations
                      dss    == IF opened THEN <<>> ELSE distances
                  IN  ScanSamples(samples, t0, i + 1,
                                  IF opened THEN <<t>> ELSE passStart,
                                  Append(els, s.elevation),
                                  Append(dss, s.distance), passes)
             ELSE IF passStart # <<>>
             THEN ScanSamples(samples, t0, i + 1, <<>>, elevations, distances,
                              Append(passes, ClosedPass(passStart[1], t, elevations, distances)))
             ELSE ScanSamples(samples, t0, i + 1, passStart, elevations, distances, passes)

\* findSatellitePasses: one sample a minute from startTime (now) up to, and
\* not including, startTime + daysToPropagate.
findSatellitePasses(satName, startTime) ==
    ScanSamples([i \in 1..config.daysToPropagate |-> Sky(satName, startTime + i - 1)],
                startTime, 1, <<>>, <<>>, <<>>, <<>>)

\* ------------------------------------------------------------------ merge
\* value || 'N/A': a property the raw pass lacks (<<>>) becomes the string.
OrNA(v) == IF v = <<>> THEN <<"N/A">> ELSE v

\* A newPass whose end is left where the raw pass ends.
BufferedPassStartOnly(satName, pass, bufferMinutes) ==
    LET bufferStart == pass.start - bufferMinutes
        bufferEnd   == pass.end
    IN  [ frequency    |-> config.noaaFrequencies[satName],
          satellite    |-> satName,
          date         |-> FormatDate(bufferStart),
          time         |-> FormatTime(bufferStart),
          duration     |-> bufferEnd - bufferStart,
          avgElevation |-> OrNA(pass.avgElevation),
          maxElevation |-> OrNA(pass.maxElevation),
          avgDistance  |-> OrNA(pass.avgDistance),
          minDistance  |-> OrNA(pass.minDistance),
          recorded     |-> FALSE ]

\* The newPass object built from a raw pass under a buffer of bufferMinutes:
\* buffered start, duration in minutes between the buffered bounds (a whole
\* number of minutes, which Math.round leaves as it is), recorded = false.
BufferedPass(satName, pass, bufferMinutes) ==
    LET bufferStart == pass.start - bufferMinutes
        bufferEnd   == pass.end + bufferMinutes
    IN  [ frequency    |-> config.noaaFrequencies[satName],
          satellite    |-> satName,
          date         |-> FormatDate(bufferStart),
          time         |-> FormatTime(bufferStart),
          duration     |-> bufferEnd - bufferStart,
          avgElevation |-> OrNA(pass.avgElevation),
          maxElevation |-> OrNA(pass.maxElevation),
          avgDistance  |-> OrNA(pass.avgDistance),
          minDistance  |-> OrNA(pass.minDistance),
          recorded     |-> FALSE ]

\* The newPass of processPasses, under the configured buffer.
NewPass(satName, pass) == BufferedPass(satName, pass, config.bufferMinutes)

\* The identity key the duplicate test compares.
KeyOf(p) == <<p.satellite, p.date, p.time>>

\* A slip in the duplicate test: the stored date is compared with the new time.
IsDuplicateTypo(existingPasses, newPass) ==
    \E i \in 1..Len(existingPasses) :
        /\ existingPasses[i].satellite = newPass.satellite
        /\ existingPasses[i].date = newPass.time
        /\ existingPasses[i].time = newPass.time

\* existingPasses.some(...): does a stored pass share newPass's key.
IsDuplicate(existingPasses, newPass) ==
    \E i \in 1..Len(existingPasses) :
        /\ existingPasses[i].satellite = newPass.satellite
        /\ existingPasses[i].date = newPass.date
        /\ existingPasses[i].time = newPass.time

\* A merge that tests each incoming pass against the loaded passes only, not
\* against the passes pushed earlier in the same loop.
MergeAgainstLoaded(existingPasses, incoming) ==
    existingPasses \o
    SelectSeq(incoming, LAMBDA p : ~(\E i \in 1..Len(existingPasses) :
                                        /\ existingPasses[i].satellite = p.satellite
                                        /\ existingPasses[i].date = p.date
                                        /\ existingPasses[i].time = p.time))

\* A merge that overwrites a stored pass with the incoming pass of its key.
RECURSIVE MergeReplace(_, _)
MergeReplace(existingPasses, incoming) ==
    IF incoming = <<>> THEN existingPasses
    ELSE LET p    == Head(incoming)
             hits == {i \in 1..Len(existingPasses) :
                         /\ existingPasses[i].satellite = p.satellite
                         /\ existingPasses[i].date = p.date
                         /\ existingPasses[i].time = p.time}
         IN  MergeReplace(IF hits = {}
                          THEN Append(existingPasses, p)
                          ELSE [i \in 1..Len(existingPasses) |->
                                   IF i \in hits THEN p ELSE existingPasses[i]],
                          Tail(incoming))

\* passes.forEach(...) of processPasses: each incoming pass is pushed onto
\* existingPasses unless a pass already there (stored, or pushed earlier in
\* this loop) shares its key.
RECURSIVE Merge(_, _)
Merge(existingPasses, incoming) ==
    IF incoming = <<>> THEN existingPasses
    ELSE Merge(IF IsDuplicate(existingPasses, Head(incoming))
               THEN existingPasses
               ELSE Append(existingPasses, Head(incoming)),
               Tail(incoming))

\* ------------------------------------------------------------- pass store
\* The array sort of savePasses: stable, ascending by the parsed date-time.
\* InsertPass puts p after every pass that does not start later than p.
RECURSIVE InsertPass(_, _)
InsertPass(sorted, p) ==
    IF sorted = <<>> THEN <<p>>
    ELSE IF RecordTime(Head(sorted)) - RecordTime(p) <= 0
         THEN <<Head(sorted)>> \o InsertPass(Tail(sorted), p)
         ELSE <<p>> \o sorted

\* A sort whose comparator parses the time of day only and drops the date.
RECURSIVE InsertByTimeOfDay(_, _)
InsertByTimeOfDay(sorted, p) ==
    IF sorted = <<>> THEN <<p>>
    ELSE IF Head(sorted).time - p.time <= 0
         THEN <<Head(sorted)>> \o InsertByTimeOfDay(Tail(sorted), p)
         ELSE <<p>> \o sorted

RECURSIVE SortPassesByTimeOfDay(_)
SortPassesByTimeOfDay(ps) ==
    IF ps = <<>> THEN <<>>
    ELSE InsertByTimeOfDay(SortPassesByTimeOfDay(SubSeq(ps, 1, Len(ps) - 1)), ps[Len(ps)])

RECURSIVE SortPasses(_)
SortPasses(ps) ==
    IF ps = <<>> THEN <<>>
    ELSE InsertPass(SortPasses(SubSeq(ps, 1, Len(ps) - 1)), ps[Len(ps)])

\* JSON.stringify(passes, null, 2): each object becomes the row of its
\* property values in insertion order; JSON.parse reads the rows back.
JSONstringify(ps) ==
    [i \in 1..Len(ps) |->
        <<ps[i].frequency, ps[i].satellite, ps[i].date, ps[i].time, ps[i].duration,
          ps[i].avgElevation, ps[i].maxElevation, ps[i].avgDistance, ps[i].minDistance,
          ps[i].recorded>>]

JSONparse(text) ==
    [i \in 1..Len(text) |->
        [ frequency    |-> text[i][1],
          satellite    |-> text[i][2],
          date         |-> text[i][3],
          time         |-> text[i][4],
          duration     |-> text[i][5],
          avgElevation |-> text[i][6],
          maxElevation |-> text[i][7],
          avgDistance  |-> text[i][8],
          minDistance  |-> text[i][9],
          recorded     |-> text[i][10] ]]

\* The canonical schedule file: absent, zero length ("blank"), cut short in
\* the middle of the text ("corrupt"), or a complete JSON text.
AbsentFile  == [kind |-> "absent",  text |-> <<>>]
BlankFile   == [kind |-> "blank",   text |-> <<>>]
CorruptFile == [kind |-> "corrupt", text |-> <<>>]
JsonFile(ps) == [kind |-> "json", text |-> JSONstringify(ps)]

\* What fs.writeFileSync(path, text) leaves at path when the process dies
\* inside the call: the file is truncated on open and then filled, so the
\* path holds nothing or a proper prefix of the text.
TornWrites == {BlankFile, CorruptFile}

\* A load without the try/catch around JSON.parse: the SyntaxError leaves
\* the function in place of an array.
readExistingPassesNoCatch(f) ==
    IF f.kind = "json" THEN JSONparse(f.text)
    ELSE IF f.kind = "corrupt" THEN <<"SyntaxError">> ELSE <<>>

\* readExistingPasses: [] when the file is missing, blank or unparseable.
readExistingPasses(f) ==
    IF f.kind = "json" THEN JSONparse(f.text) ELSE <<>>

\* What readExistingPasses hands to logger.error.
readExistingPassesErrors(f) ==
    IF f.kind = "corrupt" THEN <<"Error parsing existing passes JSON">> ELSE <<>>

\* A save that writes the array in the order it has.
savePassesUnsorted(ps) == JsonFile(ps)

\* savePasses: sort in place, then write the canonical file in place.
savePasses(ps) == JsonFile(SortPasses(ps))

\* The satellite loop of processPasses from satellite number k on.
RECURSIVE MergeSatellites(_, _, _)
MergeSatellites(existingPasses, k, startTime) ==
    IF k > Len(config.satellites) THEN existingPasses
    ELSE LET satName == config.satellites[k]
             raw     == findSatellitePasses(satName, startTime)
             batch   == [i \in 1..Len(raw) |-> NewPass(satName, raw[i])]
         IN  MergeSatellites(Merge(existingPasses, batch), k + 1, startTime)

\* processPasses run at minute startTime on file f: the file it leaves.
processPasses(f, startTime) ==
    savePasses(MergeSatellites(readExistingPasses(f), 1, startTime))

\* ------------------------------------------- processPasses, element by element
\* What the TLE text holds for a satellite: its two element lines ("ok"),
\* no line that starts with its name ("missing"), or lines twoline2satrec
\* cannot use ("invalid").  On unusable elements satellite.propagate either
\* yields no position at every instant or throws, by the library's version.
Elements == {"ok", "missing", "invalid"}

\* The satellite loop of processPasses from satellite number k on, under the
\* elements tle: a satellite without elements is logged and passed over; a
\* throw of findSatellitePasses leaves the loop and the function.
RECURSIVE RunSatellites(_, _, _, _, _, _)
RunSatellites(existingPasses, k, startTime, tle, throws, errors) ==
    IF k > Len(config.satellites)
    THEN [passes |-> existingPasses, errors |-> errors, thrown |-> FALSE]
    ELSE LET satName == config.satellites[k]
         IN  IF tle[satName] = "missing"
             THEN RunSatellites(existingPasses, k + 1, startTime, tle, throws,
                                Append(errors, <<"TLE data not found", satName>>))
             ELSE IF tle[satName] = "invalid" /\ throws
             THEN [passes |-> existingPasses, errors |-> errors, thrown |-> TRUE]
             ELSE LET raw   == IF tle[satName] = "invalid"
                               THEN ScanSamples([i \in 1..config.daysToPropagate |->
                                                    [pos |-> FALSE, distance |-> 0, elevation |-> 0]],
                                                startTime, 1, <<>>, <<>>, <<>>, <<>>)
                               ELSE findSatellitePasses(satName, startTime)
                      batch == [i \in 1..Len(raw) |-> NewPass(satName, raw[i])]
                  IN  RunSatellites(Merge(existingPasses, batch), k + 1, startTime,
                                    tle, throws, errors)

\* processPasses run at minute startTime on file f under the elements tle:
\* the file it leaves, what it logged and whether it threw.  The catch logs
\* and rethrows, so that savePasses is not reached.
processPassesOn(f, startTime, tle, throws) ==
    LET r == RunSatellites(readExistingPasses(f), 1, startTime, tle, throws, <<>>)
    IN  IF r.thrown
        THEN [file |-> f, errors |-> Append(r.errors, <<"Error processing TLE data", "">>),
              thrown |-> TRUE]
        ELSE [file |-> savePasses(r.passes), errors |-> r.errors, thrown |-> FALSE]

\* ------------------------------------------------------------------ state
VARIABLES
    now,      \* the wall clock, in minutes
    mode,     \* which scheduler runs: "timer" (scheduler.js) or "tick" (the cron scheduler)
    up,       \* the node process is running
    file,     \* the canonical schedule file
    passes,   \* scheduler.js: the array read at start-up, shared by every timer
    timers,   \* scheduler.js: indices of passes whose one-shot timer is armed
    active,   \* recordings started and not yet finished
    starts,   \* history: identity key -> number of recordings started for it
    handled,  \* history: keys whose recording was started by a handler that returned
    marked,   \* history: keys the canonical file has held with recorded = true
    crashes,  \* history: number of crashes so far
    ticked,   \* the cron tick of the current minute has run
    selected, \* scheduler.js: topMaxElevationPasses, as indices of passes
    skipped,  \* scheduler.js: indices of the selected passes main skipped as elapsed
    seen,     \* history: keys the canonical file has held
    inflight, \* cron scheduler: processPasses calls awaited and not yet returned
    unmarked, \* history: keys whose recording was started and whose mark was not written
    mStore,   \* merge laboratory: the store
    mPrev,    \* merge laboratory: the store before the last merge
    mBatch,   \* merge laboratory: the last incoming batch
    det,      \* detection laboratory: the samples scanned and the passes made of them
    sel,      \* selection laboratory: the passes offered and the passes selected
    sto,      \* store laboratory: the file, the array last saved, the array last loaded
    run       \* run laboratory: the elements at hand and what processPasses made of them

sched == <<now, mode, up, file, passes, timers, active, starts, handled, marked, crashes, ticked,
          selected, skipped, seen, inflight, unmarked>>
lab   == <<mStore, mPrev, mBatch, det, sel, sto, run>>
vars  == <<now, mode, up, file, passes, timers, active, starts, handled, marked, crashes, ticked,
           selected, skipped, seen, inflight, unmarked,
           mStore, mPrev, mBatch, det, sel, sto, run>>

\* --------------------------------------------------------------- recorder
\* isRecording(): the activation-in-progress flag.
isRecording == active # <<>>

\* startRecording(frequency, timestamp, satellite, durationMinutes): the
\* activation it starts; it ends by itself durationMinutes later.
startRecording(item, t, durationMinutes) ==
    [ frequency |-> item.frequency,
      satellite |-> item.satellite,
      date      |-> item.date,
      time      |-> item.time,
      duration  |-> durationMinutes,
      until     |-> t + durationMinutes ]

Count(k) == IF k \in DOMAIN starts THEN starts[k] ELSE 0

\* starts with one more recording counted for each activation of started.
RECURSIVE Counted(_, _)
Counted(st, started) ==
    IF started = <<>> THEN st
    ELSE LET k == KeyOf(Head(started))
             n == IF k \in DOMAIN st THEN st[k] ELSE 0
         IN  Counted([x \in DOMAIN st \cup {k} |-> IF x = k THEN n + 1 ELSE st[x]],
                     Tail(started))

KeysOf(ps) == {KeyOf(ps[i]) : i \in 1..Len(ps)}

\* The keys file f holds.
FileKeys(f) == KeysOf(IF f.kind = "json" THEN JSONparse(f.text) ELSE <<>>)

\* The keys file f holds with recorded = true.
RecordedKeys(f) ==
    LET ps == IF f.kind = "json" THEN JSONparse(f.text) ELSE <<>>
    IN  {KeyOf(ps[i]) : i \in {j \in 1..Len(ps) : ps[j].recorded}}

\* ------------------------------------------------ scheduler.js (timers)
\* updatePasses(config, logger): the prediction cycle of tle.js.
updatePasses(f, t) == processPasses(f, t)

\* readPassesFile: the decoded schedule.
readPassesFile(f) == IF f.kind = "json" THEN JSONparse(f.text) ELSE <<>>

\* The number a maxElevation string stands for.
NumberOf(v) == v[2]

\* findTopMaxElevationPasses(passes, n) at minute t: the indices of today's
\* passes that are not recorded and do not start before t, by maxElevation
\* descending, the first n of them.
RECURSIVE TopOf(_, _, _)
TopOf(ps, candidates, n) ==
    IF n = 0 \/ candidates = {} THEN <<>>
    ELSE LET best == CHOOSE i \in candidates : \A j \in candidates :
                        \/ NumberOf(ps[j].maxElevation) < NumberOf(ps[i].maxElevation)
                        \/ /\ NumberOf(ps[j].maxElevation) = NumberOf(ps[i].maxElevation)
                           /\ i <= j
         IN  <<best>> \o TopOf(ps, candidates \ {best}, n - 1)

\* A selection that does not look at the recorded mark.
findTopIgnoringRecorded(ps, n, t) ==
    TopOf(ps, {i \in 1..Len(ps) : /\ ps[i].date = FormatDate(t)
                                  /\ RecordTime(ps[i]) >= t}, n)

findTopMaxElevationPasses(ps, n, t) ==
    TopOf(ps, {i \in 1..Len(ps) : /\ ps[i].date = FormatDate(t)
                                  /\ ~ps[i].recorded
                                  /\ RecordTime(ps[i]) >= t}, n)

\* An arming loop that sets a timer whatever the delay; setTimeout fires a
\* timer of no or negative delay at once.
ArmedTimersAnyDelay(ps, top, t) ==
    {top[k] : k \in 1..Len(top)}

\* The arming loop of main: a timer for each top pass with delay > 0.
ArmedTimers(ps, top, t) ==
    {top[k] : k \in {j \in 1..Len(top) : RecordTime(ps[top[j]]) - t > 0}}

\* The else branch of the arming loop: the top passes logged as in the past.
SkippedPast(ps, top, t) ==
    {top[k] : k \in {j \in 1..Len(top) : ~(RecordTime(ps[top[j]]) - t > 0)}}

\* What a crash leaves of the process: nothing but the file.
Down ==
    /\ up' = FALSE
    /\ passes' = <<>>
    /\ timers' = {}
    /\ active' = <<>>
    /\ ticked' = FALSE
    /\ selected' = <<>>
    /\ skipped' = {}
    /\ inflight' = 0

\* main() of scheduler.js: update the passes, read them, arm the timers.
Boot ==
    /\ mode = "timer" /\ ~up
    /\ LET f   == updatePasses(file, now)
           ps  == readPassesFile(f)
           top == findTopMaxElevationPasses(ps, config.numberOfPassesPerDay, now)
       IN  /\ file' = f
           /\ marked' = marked \cup RecordedKeys(f)
           /\ seen' = seen \cup FileKeys(f)
           /\ passes' = ps
           /\ selected' = top
           /\ timers' = ArmedTimers(ps, top, now)
           /\ skipped' = SkippedPast(ps, top, now)
    /\ up' = TRUE
    /\ UNCHANGED <<now, mode, active, starts, handled, crashes, ticked, inflight, unmarked, lab>>

\* handleRecording(item, ...) run by the timer of passes[i]: start the
\* recording, set recorded on the shared object, write the whole array.
handleRecording(i) ==
    /\ mode = "timer" /\ up
    /\ i \in timers
    /\ RecordTime(passes[i]) <= now
    /\ LET rec  == startRecording(passes[i], now, passes[i].duration)
           data == [passes EXCEPT ![i].recorded = TRUE]
       IN  /\ active' = Append(active, rec)
           /\ passes' = data
           /\ file' = JsonFile(data)
           /\ marked' = marked \cup RecordedKeys(file')
           /\ seen' = seen \cup FileKeys(file')
           /\ starts' = Counted(starts, <<rec>>)
           /\ handled' = handled \cup {KeyOf(rec)}
    /\ timers' = timers \ {i}
    /\ UNCHANGED <<now, mode, up, selected, skipped, crashes, ticked, inflight, unmarked, lab>>

\* The process ends once no timer and no recording is pending.
Exit ==
    /\ mode = "timer" /\ up
    /\ timers = {} /\ active = <<>>
    /\ up' = FALSE
    /\ passes' = <<>>
    /\ selected' = <<>>
    /\ skipped' = {}
    /\ UNCHANGED <<now, mode, file, timers, active, starts, handled, marked, seen, crashes,
                   ticked, inflight, unmarked, lab>>

\* ------------------------------------------- cron scheduler (every minute)
\* The process starts; the cron job is registered.
BootCron ==
    /\ mode = "tick" /\ ~up
    /\ up' = TRUE
    /\ ticked' = FALSE
    /\ UNCHANGED <<now, mode, file, passes, timers, selected, skipped, active, starts, handled,
                   marked, seen, crashes, inflight, unmarked, lab>>

\* The tick reaches the pass's window.  The cron job runs a few milliseconds
\* after the minute (late), or exactly on it.
InWindow(item, t, late) ==
    /\ t >= RecordTime(item)
    /\ IF late THEN t < RecordTime(item) + item.duration
               ELSE t <= RecordTime(item) + item.duration
    /\ ~item.recorded

\* The pass's whole duration, whatever is left of its window.
NewDurationWhole(item, t, late) == item.duration

\* Math.floor((endRecordTime - now) / 60000)
NewDuration(item, t, late) ==
    IF late THEN RecordTime(item) + item.duration - t - 1
            ELSE RecordTime(item) + item.duration - t

\* jsonData.forEach(...) of processData from item i on: the data with the
\* recorded marks set, and the recordings started.  recording is what
\* isRecording() answers at item i.
RECURSIVE ForEachItem(_, _, _, _, _, _)
ForEachItem(jsonData, i, recording, started, t, late) ==
    IF i > Len(jsonData) THEN [data |-> jsonData, started |-> started]
    ELSE IF InWindow(jsonData[i], t, late) /\ ~recording
         THEN ForEachItem([jsonData EXCEPT ![i].recorded = TRUE], i + 1, TRUE,
                          Append(started,
                                 startRecording(jsonData[i], t, NewDuration(jsonData[i], t, late))),
                          t, late)
         ELSE ForEachItem(jsonData, i + 1, recording, started, t, late)

\* processData: already recording, skip the cycle.
TickBusy ==
    /\ mode = "tick" /\ up /\ ~ticked
    /\ isRecording
    /\ ticked' = TRUE
    /\ UNCHANGED <<now, mode, up, file, passes, timers, selected, skipped, active, starts,
                   handled, marked, seen, crashes, inflight, unmarked, lab>>

\* processData: no file, an empty file or an empty list: call processPasses
\* and await it.  The cron callback does not await processData, so the tick
\* is over while fetchTLEData is pending; inflight counts the calls pending.
TickDetect ==
    /\ mode = "tick" /\ up /\ ~ticked
    /\ ~isRecording
    /\ \/ file.kind \in {"absent", "blank"}
       \/ file.kind = "json" /\ file.text = <<>>
    /\ inflight < MaxInflight
    /\ inflight' = inflight + 1
    /\ ticked' = TRUE
    /\ UNCHANGED <<now, mode, up, file, passes, timers, selected, skipped, active, starts,
                   handled, marked, seen, crashes, unmarked, lab>>

\* A pending processPasses gets its TLE text: it reads the file, scans from
\* the present minute, merges and saves, with no macrotask in between.
DetectionDone ==
    /\ mode = "tick" /\ up
    /\ inflight > 0
    /\ inflight' = inflight - 1
    /\ file' = processPasses(file, now)
    /\ marked' = marked \cup RecordedKeys(file')
    /\ seen' = seen \cup FileKeys(file')
    /\ UNCHANGED <<now, mode, up, passes, timers, selected, skipped, active, starts, handled,
                   crashes, ticked, unmarked, lab>>

\* processData: the text does not parse: log and return.
TickCorrupt ==
    /\ mode = "tick" /\ up /\ ~ticked
    /\ ~isRecording
    /\ file.kind = "corrupt"
    /\ ticked' = TRUE
    /\ UNCHANGED <<now, mode, up, file, passes, timers, selected, skipped, active, starts,
                   handled, marked, seen, crashes, inflight, unmarked, lab>>

\* processData: start what is due, then backup, write the temporary file
\* and rename it over the canonical one.
TickSchedule ==
    /\ mode = "tick" /\ up /\ ~ticked
    /\ ~isRecording
    /\ file.kind = "json" /\ file.text # <<>>
    /\ \E late \in BOOLEAN :
         LET r == ForEachItem(JSONparse(file.text), 1, isRecording, <<>>, now, late)
         IN  /\ active' = active \o r.started
             /\ starts' = Counted(starts, r.started)
             /\ handled' = handled \cup KeysOf(r.started)
             /\ file' = JsonFile(r.data)
             /\ marked' = marked \cup RecordedKeys(file')
             /\ seen' = seen \cup FileKeys(file')
    /\ ticked' = TRUE
    /\ UNCHANGED <<now, mode, up, passes, timers, selected, skipped, crashes, inflight, unmarked,
                   lab>>

\* -------------------------------------------------- tle.js run on its own
\* node tle.js: the prediction cycle run as the main module, beside whatever
\* scheduler is up or down.
PredictionCycle ==
    /\ file' = processPasses(file, now)
    /\ file' # file
    /\ marked' = marked \cup RecordedKeys(file')
    /\ seen' = seen \cup FileKeys(file')
    /\ UNCHANGED <<now, mode, up, passes, timers, selected, skipped, active, starts, handled,
                   crashes, ticked, inflight, unmarked, lab>>

\* ------------------------------------------------------ time and recorder
\* The stop timer fires and leaves the recording, and the flag, as they are.
FinishRecordingKeepsFlag ==
    /\ \E j \in 1..Len(active) : active[j].until <= now
    /\ UNCHANGED vars

\* A recording ends when its duration has elapsed; the flag is cleared.
FinishRecording ==
    /\ \E j \in 1..Len(active) :
         /\ active[j].until <= now
         /\ active' = SubSeq(active, 1, j - 1) \o SubSeq(active, j + 1, Len(active))
    /\ UNCHANGED <<now, mode, up, file, passes, timers, selected, skipped, starts, handled,
                   marked, seen, crashes, ticked, inflight, unmarked, lab>>

\* A minute passes.  A running process has by then fired the timers that
\* were due, run the minute's cron tick and ended the recordings that were
\* over.
AdvanceTime ==
    /\ now < MaxTime
    /\ up => /\ \A i \in timers : RecordTime(passes[i]) > now
             /\ mode = "tick" => ticked
             /\ \A j \in 1..Len(active) : active[j].until > now
    /\ now' = now + 1
    /\ ticked' = FALSE
    /\ UNCHANGED <<mode, up, file, passes, timers, selected, skipped, active, starts, handled,
                   marked, seen, crashes, inflight, unmarked, lab>>

\* ----------------------------------------------------------------- crashes
\* The process dies between two handlers.
Crash ==
    /\ up /\ crashes < MaxCrashes
    /\ crashes' = crashes + 1
    /\ Down
    /\ UNCHANGED <<now, mode, file, starts, handled, marked, seen, unmarked, lab>>

\* The process dies inside savePasses' writeFileSync, during the prediction
\* cycle run by main (timer) or by the tick (cron).
CrashInSave ==
    /\ crashes < MaxCrashes
    /\ \/ mode = "timer" /\ ~up
       \/ mode = "tick" /\ up /\ inflight > 0
    /\ file' \in TornWrites
    /\ marked' = marked \cup RecordedKeys(file')
    /\ seen' = seen \cup FileKeys(file')
    /\ crashes' = crashes + 1
    /\ Down
    /\ UNCHANGED <<now, mode, starts, handled, unmarked, lab>>

\* The process dies in handleRecording after startRecording: before the
\* write (the file is as it was) or inside it.
CrashInHandleRecording ==
    /\ mode = "timer" /\ up /\ crashes < MaxCrashes
    /\ \E i \in timers :
         /\ RecordTime(passes[i]) <= now
         /\ starts' = Counted(starts, <<startRecording(passes[i], now, passes[i].duration)>>)
    /\ file' \in TornWrites \cup {file}
    /\ marked' = marked \cup RecordedKeys(file')
    /\ seen' = seen \cup FileKeys(file')
    /\ crashes' = crashes + 1
    /\ Down
    /\ UNCHANGED <<now, mode, handled, unmarked, lab>>

\* The process dies in processData after startRecording and before the
\* rename: the canonical file is as it was.
CrashInTick ==
    /\ mode = "tick" /\ up /\ ~ticked /\ crashes < MaxCrashes
    /\ ~isRecording
    /\ file.kind = "json" /\ file.text # <<>>
    /\ \E late \in BOOLEAN :
         LET r == ForEachItem(JSONparse(file.text), 1, isRecording, <<>>, now, late)
         IN  /\ r.started # <<>>
             /\ starts' = Counted(starts, r.started)
    /\ crashes' = crashes + 1
    /\ Down
    /\ UNCHANGED <<now, mode, file, handled, marked, seen, unmarked, lab>>

\* ---------------------------------------------------------- failed writes
\* handleRecording's writeFileSync throws after startRecording and after
\* item.recorded = true: the file is as it was, or emptied by the open that
\* came before the failed write.  The rejection of the timer's async
\* callback is handled nowhere, and node v22 ends the process on it.
FailInHandleRecording ==
    /\ mode = "timer" /\ up /\ crashes < MaxCrashes
    /\ \E i \in timers :
         /\ RecordTime(passes[i]) <= now
         /\ LET rec == startRecording(passes[i], now, passes[i].duration)
            IN  /\ starts' = Counted(starts, <<rec>>)
                /\ handled' = handled \cup {KeyOf(rec)}
                /\ unmarked' = unmarked \cup {KeyOf(rec)}
    /\ file' \in {file, BlankFile}
    /\ marked' = marked \cup RecordedKeys(file')
    /\ seen' = seen \cup FileKeys(file')
    /\ crashes' = crashes + 1
    /\ Down
    /\ UNCHANGED <<now, mode, lab>>

\* processData's copy, write or rename throws after startRecording and
\* after item.recorded = true on the parsed data: the catch logs, the parsed
\* data is dropped, the canonical file is as it was and the process goes on.
FailInTick ==
    /\ mode = "tick" /\ up /\ ~ticked
    /\ ~isRecording
    /\ file.kind = "json" /\ file.text # <<>>
    /\ \E late \in BOOLEAN :
         LET r == ForEachItem(JSONparse(file.text), 1, isRecording, <<>>, now, late)
         IN  /\ r.started # <<>>
             /\ active' = active \o r.started
             /\ starts' = Counted(starts, r.started)
             /\ handled' = handled \cup KeysOf(r.started)
             /\ unmarked' = unmarked \cup KeysOf(r.started)
    /\ ticked' = TRUE
    /\ UNCHANGED <<now, mode, up, file, passes, timers, selected, skipped, marked, seen,
                   crashes, inflight, lab>>

\* -------------------------------------------------------- merge laboratory
\* The merge of processPasses applied to stores and batches drawn from a
\* small universe of passes: two satellites, three start minutes (two on
\* one day, one on the next day at the first one's time of day).
LabStarts == {0, 1, DayLen}

\* A freshly detected pass of sat with buffered start at minute start.
LabIncoming(sat, start) ==
    NewPass(sat, [ start        |-> start + config.bufferMinutes,
                   end          |-> start + config.bufferMinutes + 2,
                   maxElevation |-> ToFixed2(30000),
                   avgElevation |-> ToFixed2(20000),
                   avgDistance  |-> ToFixed2(4000),
                   minDistance  |-> ToFixed2(3000) ])

\* The same pass as an earlier cycle stored it (cut by that cycle's window)
\* and the scheduler later marked it.
LabStored(sat, start) ==
    [LabIncoming(sat, start) EXCEPT !.recorded = TRUE, !.duration = @ - 1,
                                    !.minDistance = <<"N/A">>, !.avgDistance = <<"N/A">>]

LabIncomingPasses == {LabIncoming(sat, st) : sat \in Sats, st \in LabStarts}
LabStoredPasses   == {LabStored(sat, st) : sat \in Sats, st \in LabStarts}

SeqsUpTo(S, n) == UNION {[1..k -> S] : k \in 0..n}

NoDuplicateKeys(ps) ==
    \A i, j \in 1..Len(ps) : KeyOf(ps[i]) = KeyOf(ps[j]) => i = j

\* The laboratories at rest: nothing scanned, selected, saved or loaded yet.
NoDetection == [samples |-> <<>>, start |-> 0, buffer |-> 0, scanned |-> FALSE,
                raw |-> <<>>, passes |-> <<>>]
NoSelection == [passes |-> <<>>, now |-> 0, n |-> 0, chosen |-> FALSE, top |-> <<>>]
NoStore     == [file |-> AbsentFile, saved |-> <<>>, loaded |-> <<>>, errors |-> <<>>,
                ops |-> <<>>]

NoRun       == [tle |-> [s \in Sats |-> "ok"], throws |-> FALSE, start |-> 0,
                file |-> AbsentFile, done |-> FALSE, errors |-> <<>>, thrown |-> FALSE]

\* One merge of a batch into the store.
LabMerge ==
    /\ Len(mStore) <= MaxStore
    /\ \E batch \in SeqsUpTo(LabIncomingPasses, MaxBatch) :
         /\ mBatch' = batch
         /\ mPrev' = mStore
         /\ mStore' = Merge(mStore, batch)
    /\ UNCHANGED <<sched, det, sel, sto, run>>

InitLab ==
    /\ now = 0
    /\ mode = "timer"
    /\ up = FALSE
    /\ file = AbsentFile
    /\ passes = <<>>
    /\ timers = {}
    /\ active = <<>>
    /\ starts = <<>>
    /\ handled = {}
    /\ marked = {}
    /\ crashes = 0
    /\ ticked = FALSE
    /\ selected = <<>>
    /\ skipped = {}
    /\ seen = {}
    /\ inflight = 0
    /\ unmarked = {}
    /\ mStore \in {st \in SeqsUpTo(LabStoredPasses, MaxStore) : NoDuplicateKeys(st)}
    /\ mPrev = mStore
    /\ mBatch = <<>>
    /\ det = NoDetection
    /\ sel = NoSelection
    /\ sto = NoStore
    /\ run = NoRun

NextLab == LabMerge

LabSpec == InitLab /\ [][NextLab]_vars

\* ---------------------------------------------------- detection laboratory
\* findSatellitePasses' loop and the buffering of processPasses applied to
\* sample sequences drawn from four samples: the propagator gives no
\* position; in range at 31.004 degrees; in range at 41.996 degrees; out of
\* range.  geolib.getDistance yields whole metres.
NoPosition  == [pos |-> FALSE, distance |-> 0,    elevation |-> 0]
LowInRange  == [pos |-> TRUE,  distance |-> 4000, elevation |-> 31004]
HighInRange == [pos |-> TRUE,  distance |-> 3000, elevation |-> 41996]
OutOfRange  == [pos |-> TRUE,  distance |-> 9000, elevation |-> -5000]

LabSamples == {NoPosition, LowInRange, HighInRange, OutOfRange}

\* The minutes a detection window of the laboratory starts at: the first of
\* a day and the last of a day.
LabWindowStarts == {0, DayLen - 1}

\* The detection of the window at hand, and the newPass of each raw pass
\* under the buffer at hand.
LabDetect ==
    /\ ~det.scanned
    /\ LET raw == ScanSamples(det.samples, det.start, 1, <<>>, <<>>, <<>>, <<>>)
       IN  det' = [det EXCEPT !.scanned = TRUE,
                              !.raw     = raw,
                              !.passes  = [i \in 1..Len(raw) |->
                                   BufferedPass(config.satellites[1], raw[i], det.buffer)]]
    /\ UNCHANGED <<sched, mStore, mPrev, mBatch, sel, sto, run>>

\* The schedulers at rest and the other laboratories untouched.
AtRest ==
    /\ now = 0
    /\ mode = "timer"
    /\ up = FALSE
    /\ file = AbsentFile
    /\ passes = <<>>
    /\ timers = {}
    /\ active = <<>>
    /\ starts = <<>>
    /\ handled = {}
    /\ marked = {}
    /\ crashes = 0
    /\ ticked = FALSE
    /\ selected = <<>>
    /\ skipped = {}
    /\ seen = {}
    /\ inflight = 0
    /\ unmarked = {}

InitDet ==
    /\ AtRest
    /\ mStore = <<>> /\ mPrev = <<>> /\ mBatch = <<>>
    /\ det \in {[NoDetection EXCEPT !.samples = samples, !.start = t0, !.buffer = b] :
                   samples \in SeqsUpTo(LabSamples, MaxSamples),
                   t0 \in LabWindowStarts, b \in 0..MaxBuffer}
    /\ sel = NoSelection
    /\ sto = NoStore
    /\ run = NoRun

NextDet == LabDetect

DetSpec == InitDet /\ [][NextDet]_vars

\* -------------------------------------------------------- store laboratory
\* savePasses and readExistingPasses applied to a file found absent, blank,
\* cut short or complete, and to arrays drawn from the passes of the merge
\* laboratory, in any order.  sto.ops is the sequence of calls made so far.
LabFiles ==
    {AbsentFile, BlankFile, CorruptFile, JsonFile(<<>>),
     JsonFile(<<LabStored(config.satellites[1], 0)>>)}

\* savePasses(sto.saved), once.
LabSave ==
    /\ \A i \in 1..Len(sto.ops) : sto.ops[i] # "save"
    /\ sto' = [sto EXCEPT !.file = savePasses(sto.saved),
                          !.ops  = Append(@, "save")]
    /\ UNCHANGED <<sched, mStore, mPrev, mBatch, det, sel, run>>

\* readExistingPasses(), not twice in a row.
LabLoad ==
    /\ IF sto.ops = <<>> THEN TRUE ELSE sto.ops[Len(sto.ops)] # "load"
    /\ sto' = [sto EXCEPT !.loaded = readExistingPasses(sto.file),
                          !.errors = readExistingPassesErrors(sto.file),
                          !.ops    = Append(@, "load")]
    /\ UNCHANGED <<sched, mStore, mPrev, mBatch, det, sel, run>>

InitSto ==
    /\ AtRest
    /\ mStore = <<>> /\ mPrev = <<>> /\ mBatch = <<>>
    /\ det = NoDetection
    /\ sel = NoSelection
    /\ run = NoRun
    /\ sto \in {[NoStore EXCEPT !.file = f, !.saved = ps] :
                   f \in LabFiles,
                   ps \in SeqsUpTo(LabIncomingPasses \cup LabStoredPasses, MaxStore)}

NextSto == LabSave \/ LabLoad

StoSpec == InitSto /\ [][NextSto]_vars

\* ---------------------------------------------------- selection laboratory
\* findTopMaxElevationPasses applied to arrays as readPassesFile returns
\* them (ascending by start, no key twice) of passes that start at minutes
\* 0, 1, 2 of today or at the first minute of tomorrow, recorded or not.
\* NOAA 19 peaks at 20.00 degrees in its first two passes, every other pass
\* at 9.50 degrees.
LabOffered(sat, start, recorded) ==
    [LabIncoming(sat, start) EXCEPT
        !.maxElevation = ToFixed2(IF sat = "NOAA 19" /\ start <= 1 THEN 20001 ELSE 9504),
        !.recorded     = recorded]

LabOfferedPasses ==
    {LabOffered(sat, st, rec) : sat \in Sats, st \in {0, 1, 2, DayLen}, rec \in BOOLEAN}

\* The selection of main, at the minute and for the number at hand.
LabSelect ==
    /\ ~sel.chosen
    /\ sel' = [sel EXCEPT !.chosen = TRUE,
                          !.top    = findTopMaxElevationPasses(sel.passes, sel.n, sel.now)]
    /\ UNCHANGED <<sched, mStore, mPrev, mBatch, det, sto, run>>

InitSel ==
    /\ AtRest
    /\ mStore = <<>> /\ mPrev = <<>> /\ mBatch = <<>>
    /\ det = NoDetection
    /\ sto = NoStore
    /\ run = NoRun
    /\ sel \in {[NoSelection EXCEPT !.passes = ps, !.now = t, !.n = n] :
                   ps \in {x \in SeqsUpTo(LabOfferedPasses, MaxOffered) :
                              /\ NoDuplicateKeys(x)
                              /\ SortPasses(x) = x},
                   t \in {0, 1}, n \in 1..MaxTop}

NextSel == LabSelect

SelSpec == InitSel /\ [][NextSel]_vars

\* ---------------------------------------------------------- run laboratory
\* processPasses applied once, at a drawn minute, to a file that is missing
\* or holds one pass, under drawn elements for each satellite.
LabRun ==
    /\ ~run.done
    /\ LET r == processPassesOn(run.file, run.start, run.tle, run.throws)
       IN  run' = [run EXCEPT !.done = TRUE, !.file = r.file, !.errors = r.errors,
                              !.thrown = r.thrown]
    /\ UNCHANGED <<sched, mStore, mPrev, mBatch, det, sel, sto>>

InitRun ==
    /\ AtRest
    /\ mStore = <<>> /\ mPrev = <<>> /\ mBatch = <<>>
    /\ det = NoDetection
    /\ sel = NoSelection
    /\ sto = NoStore
    /\ run \in {[NoRun EXCEPT !.tle = tle, !.throws = th, !.start = t, !.file = f] :
                   tle \in [Sats -> Elements], th \in BOOLEAN, t \in 0..MaxTime,
                   f \in {AbsentFile, JsonFile(<<LabStored(config.satellites[1], 0)>>)}}

NextRun == LabRun

RunSpec == InitRun /\ [][NextRun]_vars

\* ---------------------------------------------------------- specification
Init ==
    /\ now = 0
    /\ mode \in {"timer", "tick"}
    /\ up = FALSE
    /\ file = AbsentFile
    /\ passes = <<>>
    /\ timers = {}
    /\ active = <<>>
    /\ starts = <<>>
    /\ handled = {}
    /\ marked = {}
    /\ crashes = 0
    /\ ticked = FALSE
    /\ selected = <<>>
    /\ skipped = {}
    /\ seen = {}
    /\ inflight = 0
    /\ unmarked = {}
    /\ mStore = <<>>
    /\ mPrev = <<>>
    /\ mBatch = <<>>
    /\ det = NoDetection
    /\ sel = NoSelection
    /\ sto = NoStore
    /\ run = NoRun

Next ==
    \/ Boot
    \/ \E i \in timers : handleRecording(i)
    \/ Exit
    \/ BootCron
    \/ TickBusy
    \/ TickDetect
    \/ DetectionDone
    \/ TickCorrupt
    \/ TickSchedule
    \/ PredictionCycle
    \/ FinishRecording
    \/ AdvanceTime
    \/ Crash
    \/ CrashInSave
    \/ CrashInHandleRecording
    \/ CrashInTick

Spec == Init /\ [][Next]_vars

\* The clock past the horizon of the model, for as long as a recording is
\* in progress: the minutes in which its stop timer comes due.
RunOut ==
    /\ now >= MaxTime
    /\ up /\ isRecording
    /\ \A i \in timers : RecordTime(passes[i]) > now
    /\ mode = "tick" => ticked
    /\ \A j \in 1..Len(active) : active[j].until > now
    /\ now' = now + 1
    /\ ticked' = FALSE
    /\ UNCHANGED <<mode, up, file, passes, timers, selected, skipped, active, starts, handled,
                   marked, seen, crashes, inflight, unmarked, lab>>

\* What the event loop of a running process does by itself: the clock
\* runs, a timer that is due fires, cron runs the tick of each minute.
EventLoop ==
    \/ AdvanceTime
    \/ RunOut
    \/ FinishRecording
    \/ \E i \in timers : handleRecording(i)
    \/ TickBusy
    \/ TickDetect
    \/ TickCorrupt
    \/ TickSchedule

\* The steps of the schedulers with the clock not cut at the horizon.  A
\* process that dies inside handleRecording or processData leaves the flag
\* as Crash does; those two deaths are left to Crash here.
NextLive ==
    \/ Boot
    \/ \E i \in timers : handleRecording(i)
    \/ Exit
    \/ BootCron
    \/ TickBusy
    \/ TickDetect
    \/ DetectionDone
    \/ TickCorrupt
    \/ TickSchedule
    \/ PredictionCycle
    \/ FinishRecording
    \/ AdvanceTime
    \/ RunOut
    \/ Crash
    \/ CrashInSave

\* The schedulers under the scheduling of the event loop: of the steps that
\* are due, one is taken in the end.
LiveSpec == Init /\ [][NextLive]_vars /\ WF_vars(EventLoop)

\* The schedulers with writes that fail.
NextFail ==
    \/ Next
    \/ FailInHandleRecording
    \/ FailInTick

FailSpec == Init /\ [][NextFail]_vars

\* ----------------------------------------------------------------- claims
\* The passes the canonical file holds, as a reader decodes them.
Persisted == IF file.kind = "json" THEN JSONparse(file.text) ELSE <<>>

\* C1: at most one recording is in progress at any instant.
C1_SingleFlight == Len(active) <= 1

\* C2: a timer or tick that finds a recording in progress starts nothing and
\* sets no recorded mark, neither in memory nor in the canonical file.
C2_SkippedConflict ==
    [][ (isRecording /\ ((\E i \in timers : handleRecording(i)) \/ TickBusy \/ TickSchedule))
          => /\ starts' = starts
             /\ \A i \in 1..Len(passes) : passes'[i].recorded = passes[i].recorded
             /\ RecordedKeys(file') = RecordedKeys(file) ]_vars

\* C3: for every identity key at most one recording is ever started.
C3_NoDoubleCapture == \A k \in DOMAIN starts : starts[k] <= 1

\* C4: once the handler that started the recording of a pass has returned,
\* the canonical file never shows that pass with recorded = false.
C4_SavedOnStart ==
    \A k \in handled : \A i \in 1..Len(Persisted) :
        KeyOf(Persisted[i]) = k => Persisted[i].recorded

\* C5: a key the canonical file has once held with recorded = true is never
\* held later with recorded = false.
C5_RecordedMonotonic ==
    \A i \in 1..Len(Persisted) :
        KeyOf(Persisted[i]) \in marked => Persisted[i].recorded

\* C9: the canonical path never holds a blank or partial file.
C9_AtomicWrite == file.kind \in {"absent", "json"}

\* C10: the persisted passes are in ascending order of start date-time.
C10_Ordered ==
    \A i \in 1..(Len(Persisted) - 1) :
        RecordTime(Persisted[i]) <= RecordTime(Persisted[i + 1])

\* A file written by the scheduler on firing, after a prediction cycle whose
\* merge appended an earlier pass behind a later one.
C10_Witness ==
    /\ Len(Persisted) >= 2
    /\ Persisted[1].satellite = config.satellites[Len(config.satellites)]
    /\ \E i \in 1..Len(Persisted) : Persisted[i].recorded

\* C6: the store never holds two passes with the same identity key.
C6_NoDuplicateKeys == NoDuplicateKeys(mStore)

\* A merge of a batch that holds one new key twice.
C6_Witness ==
    /\ Len(mBatch) = 2
    /\ KeyOf(mBatch[1]) = KeyOf(mBatch[2])
    /\ mPrev # <<>>
    /\ Len(mStore) = Len(mPrev) + 1

\* C7: merging the result of a merge into the same store again changes
\* nothing, and a second prediction cycle over the same detected passes
\* leaves the file of the first.
C7_MergeIdempotent ==
    /\ mStore = Merge(mPrev, mBatch)
    /\ Merge(mPrev, mStore) = mStore
    /\ savePasses(Merge(readExistingPasses(savePasses(mStore)), mBatch)) = savePasses(mStore)

\* A merge that both dropped a duplicate and appended a new pass.
C7_Witness ==
    /\ mPrev # <<>>
    /\ Len(mStore) > Len(mPrev)
    /\ \E i \in 1..Len(mBatch) : KeyOf(mBatch[i]) \in KeysOf(mPrev)

\* The incoming passes a merge into existing has to append: those whose key
\* no existing pass and no earlier incoming pass has, in incoming order.
RECURSIVE Appended(_, _, _)
Appended(existing, incoming, i) ==
    IF i > Len(incoming) THEN <<>>
    ELSE IF \/ KeyOf(incoming[i]) \in KeysOf(existing)
            \/ \E j \in 1..(i - 1) : KeyOf(incoming[j]) = KeyOf(incoming[i])
         THEN Appended(existing, incoming, i + 1)
         ELSE <<incoming[i]>> \o Appended(existing, incoming, i + 1)

\* C8: a merge keeps every existing pass, field by field and in place, and
\* appends behind them the incoming passes with a new key, in incoming order.
C8_MergeFrame ==
    /\ Len(mStore) >= Len(mPrev)
    /\ \A i \in 1..Len(mPrev) : mStore[i] = mPrev[i]
    /\ SubSeq(mStore, Len(mPrev) + 1, Len(mStore)) = Appended(mPrev, mBatch, 1)
    /\ (\A i \in 1..Len(mBatch) : KeyOf(mBatch[i]) \in KeysOf(mPrev)) => mStore = mPrev

\* A merge whose batch repeats the key of a stored, recorded pass and brings
\* a new key as well.
C8_Witness ==
    /\ \E i \in 1..Len(mPrev) : \E j \in 1..Len(mBatch) :
         /\ KeyOf(mPrev[i]) = KeyOf(mBatch[j])
         /\ mPrev[i].recorded /\ ~mBatch[j].recorded
         /\ mStore[i].recorded
    /\ Len(mStore) = Len(mPrev) + 1

\* ------------------------------------------------------- detection claims
\* A sample is in view iff the propagator gives a position and the ground
\* range is within maxDistance.
InView(s) == s.pos /\ s.distance <= config.maxDistance

\* The number of maximal contiguous runs of in-view samples.
Runs(samples) ==
    Cardinality({i \in 1..Len(samples) :
                    /\ InView(samples[i])
                    /\ i = 1 \/ ~InView(samples[i - 1])})

\* The indices of the samples taken in [from, to) of the scanned window.
SamplesIn(from, to) ==
    {i \in 1..Len(det.samples) : from <= det.start + i - 1 /\ det.start + i - 1 < to}

\* C13: detection emits one raw pass for each maximal run of in-view samples,
\* a sample with no position ending the run it falls in.
C13_PassesAreRuns == det.scanned => Len(det.raw) = Runs(det.samples)

\* C14: maxElevation is at least the elevation, and minDistance at most the
\* range, of every sample of the pass's interval, and both are the aggregate
\* of exactly the in-view samples of that interval.
C14_Aggregates ==
    \A k \in 1..Len(det.raw) :
        LET r   == det.raw[k]
            ins == {i \in SamplesIn(r.start, r.end) : InView(det.samples[i])}
        IN  /\ r.maxElevation # <<>> /\ r.minDistance # <<>>
            /\ \A i \in ins :
                   /\ NumberOf(r.maxElevation) * 10 >= det.samples[i].elevation
                   /\ NumberOf(r.minDistance) * 10 <= det.samples[i].distance
            /\ \E i \in ins : r.maxElevation = ToFixed2(det.samples[i].elevation)
            /\ \E i \in ins : r.minDistance = ToFixed2(det.samples[i].distance)

\* C15: under a buffer of b minutes the stored pass starts b minutes before
\* the raw interval, ends b minutes after it and lasts its length plus 2b.
C15_Buffering ==
    /\ det.scanned => det.raw = ScanSamples(det.samples, det.start, 1, <<>>, <<>>, <<>>, <<>>)
    /\ Len(det.passes) = Len(det.raw)
    /\ \A k \in 1..Len(det.raw) :
          LET r == det.raw[k]
              p == det.passes[k]
          IN  /\ RecordTime(p) = r.start - det.buffer
              /\ RecordTime(p) + p.duration = r.end + det.buffer
              /\ p.duration = (r.end - r.start) + 2 * det.buffer

\* A buffered pass whose start falls on the day before the raw start.
C15_Witness ==
    /\ det.buffer = MaxBuffer
    /\ \E k \in 1..Len(det.raw) :
          /\ FormatDate(det.raw[k].start) # det.passes[k].date
          /\ det.raw[k].end - det.raw[k].start >= 2

\* C20: a pass still open when the window ends is emitted closing at the
\* window end with the four aggregates of its samples, as a pass closed
\* inside the window is.
C20_OpenPassAggregates ==
    \A k \in 1..Len(det.raw) :
        LET r   == det.raw[k]
            ins == {i \in SamplesIn(r.start, r.end) : InView(det.samples[i])}
            kept == SelectSeq([i \in 1..Len(det.samples) |-> i], LAMBDA i : i \in ins)
        IN  r.end = det.start + Len(det.samples)
              => r = ClosedPass(r.start, r.end,
                                [j \in 1..Len(kept) |-> det.samples[kept[j]].elevation],
                                [j \in 1..Len(kept) |-> det.samples[kept[j]].distance])

\* ----------------------------------------------------------- store claims
\* The number of times p occurs in ps.
Occurrences(ps, p) == Cardinality({i \in 1..Len(ps) : ps[i] = p})

\* readExistingPasses has just run on the file savePasses left.
SavedThenLoaded ==
    /\ Len(sto.ops) >= 2
    /\ sto.ops[Len(sto.ops) - 1] = "save"
    /\ sto.ops[Len(sto.ops)] = "load"

\* C11: a load after a save returns the passes saved, each with the field
\* values it had, no more and no fewer, in ascending order of start.
C11_SaveLoad ==
    SavedThenLoaded =>
        /\ Len(sto.loaded) = Len(sto.saved)
        /\ \A i \in 1..Len(sto.saved) :
              Occurrences(sto.loaded, sto.saved[i]) = Occurrences(sto.saved, sto.saved[i])
        /\ KeysOf(sto.loaded) = KeysOf(sto.saved)
        /\ \A i \in 1..(Len(sto.loaded) - 1) :
              RecordTime(sto.loaded[i]) <= RecordTime(sto.loaded[i + 1])

\* A save of a recorded pass of the next day ahead of an unrecorded pass of
\* today, read back.
C11_Witness ==
    /\ SavedThenLoaded
    /\ Len(sto.saved) >= 2
    /\ sto.saved[1].recorded /\ ~sto.saved[2].recorded
    /\ sto.saved[1].date > sto.saved[2].date
    /\ sto.saved[1].time < sto.saved[2].time

\* C12: a load of a missing, blank or unparseable file returns the empty
\* array, reports an error on the unparseable one only, and no load changes
\* the file.
C12_LoadEmpty ==
    [][ (Len(sto'.ops) = Len(sto.ops) + 1 /\ sto'.ops[Len(sto'.ops)] = "load")
          => /\ sto'.file = sto.file
             /\ sto.file.kind \in {"absent", "blank", "corrupt"} => sto'.loaded = <<>>
             /\ sto.file.kind = "corrupt" => sto'.errors # <<>>
             /\ sto.file.kind \in {"absent", "blank"} => sto'.errors = <<>> ]_vars

\* A load of the unparseable file, before any save.
C12_Witness ==
    /\ sto.ops = <<"load">>
    /\ sto.file.kind = "corrupt"
    /\ sto.loaded = <<>>
    /\ sto.errors # <<>>

\* ------------------------------------------------------- selection claims
\* The passes of today that are not recorded and do not start before now.
Qualifying ==
    {i \in 1..Len(sel.passes) : /\ ~sel.passes[i].recorded
                                /\ RecordTime(sel.passes[i]) >= sel.now
                                /\ sel.passes[i].date = FormatDate(sel.now)}

\* C16: the selection holds no recorded pass, no pass that starts before now
\* or on another day, no pass twice, at most n passes and all the qualifying
\* ones when they are fewer, in descending order of the number maxElevation
\* stands for.
C16_SelectTop ==
    sel.chosen =>
        /\ \A k \in 1..Len(sel.top) : sel.top[k] \in Qualifying
        /\ \A k, l \in 1..Len(sel.top) : sel.top[k] = sel.top[l] => k = l
        /\ Len(sel.top) <= sel.n
        /\ Cardinality(Qualifying) <= sel.n => Len(sel.top) = Cardinality(Qualifying)
        /\ \A k \in 1..(Len(sel.top) - 1) :
              sel.passes[sel.top[k]].maxElevation[2] >= sel.passes[sel.top[k + 1]].maxElevation[2]

\* A selection of two among three qualifying passes, the 20.00 degree pass
\* ahead of a 9.50 degree pass that starts earlier.
C16_Witness ==
    /\ sel.chosen
    /\ Len(sel.top) = 2 /\ sel.n = 2
    /\ Cardinality(Qualifying) = 3
    /\ sel.top[1] > sel.top[2]
    /\ sel.passes[sel.top[1]].maxElevation[2] > sel.passes[sel.top[2]].maxElevation[2]

\* ------------------------------------------------------- scheduler claims
\* C17: main arms no timer for a selected pass whose delay is not positive
\* and exactly one for each other selected pass; an activation is started
\* only by an armed timer, once, not before the pass's start, for a pass that
\* was not skipped, and with that pass's frequency, start, satellite and
\* duration.
C17_Arming ==
    [][ mode = "timer" =>
          /\ (~up /\ up') =>
                /\ \A k \in 1..Len(selected') :
                      IF RecordTime(passes'[selected'[k]]) - now <= 0
                      THEN selected'[k] \notin timers' /\ selected'[k] \in skipped'
                      ELSE selected'[k] \in timers' /\ selected'[k] \notin skipped'
                /\ timers' \subseteq {selected'[k] : k \in 1..Len(selected')}
          /\ (starts' # starts) =>
                \E i \in timers :
                    /\ i \notin skipped /\ i \notin timers'
                    /\ RecordTime(passes[i]) <= now
                    /\ \A x \in DOMAIN starts' :
                          starts'[x] = Count(x) + (IF x = KeyOf(passes[i]) THEN 1 ELSE 0)
                    /\ up' => /\ Len(active') = Len(active) + 1
                              /\ LET a == active'[Len(active')]
                                 IN  /\ a.frequency = passes[i].frequency
                                     /\ a.satellite = passes[i].satellite
                                     /\ a.date = passes[i].date /\ a.time = passes[i].time
                                     /\ a.duration = passes[i].duration ]_vars

\* main skipped a selected pass as elapsed and armed another, whose timer has
\* fired; nothing was started for the skipped pass.
C17_Witness ==
    /\ mode = "timer" /\ up
    /\ skipped # {} /\ active # <<>>
    /\ timers = {}
    /\ \A i \in skipped : Count(KeyOf(passes[i])) = 0
    /\ KeyOf(active[1]) \in {KeyOf(passes[selected[k]]) : k \in 1..Len(selected)}

\* C18: a key the canonical file has once held is held by it ever after.
C18_NeverDeleted == seen \subseteq FileKeys(file)

\* C19: a scheduling cycle that finds the canonical file unparseable treats
\* it as empty and goes on: main's cycle, and the tick's cycle when no
\* recording is in progress, leave a parseable schedule behind.
C19_CorruptNeverBlocks ==
    [][ ( /\ file.kind = "corrupt"
          /\ \/ mode = "timer" /\ ~up /\ up'
             \/ mode = "tick" /\ up /\ up' /\ ~isRecording /\ ~ticked /\ ticked' )
          => file'.kind = "json" ]_vars

\* C25: every pass detection emits starts before it ends and lasts a minute
\* or more, raw and buffered, whatever the samples and the buffer.
C25_StartBeforeEnd ==
    det.scanned =>
        \A k \in 1..Len(det.raw) :
            /\ det.raw[k].start < det.raw[k].end
            /\ det.passes[k].duration >= 1
            /\ RecordTime(det.passes[k]) < RecordTime(det.passes[k]) + det.passes[k].duration

\* A pass opened by the last sample of the window, unbuffered, beside a pass
\* closed inside the window: the open one ends at the window end.
C25_Witness ==
    /\ det.scanned
    /\ det.buffer = 0
    /\ Len(det.samples) = MaxSamples
    /\ Len(det.raw) = 2
    /\ det.raw[2].start = det.start + Len(det.samples) - 1
    /\ det.raw[2].end = det.start + Len(det.samples)
    /\ det.passes[2].duration = 1
    /\ det.passes[1].avgDistance # <<"N/A">>

\* C26: a tick starts a recording only for a pass of the file that is not
\* recorded and whose window [recordTime, recordTime + duration] holds the
\* tick; the recording lasts what is left of the window, between 0 and the
\* pass's duration, and ends no later than the window.
C26_TickWindow ==
    [][(mode = "tick" /\ Len(active') > Len(active)) =>
          /\ file.kind = "json"
          /\ \A j \in (Len(active) + 1)..Len(active') :
                \E i \in 1..Len(JSONparse(file.text)) :
                    LET item == JSONparse(file.text)[i]
                        a    == active'[j]
                    IN  /\ KeyOf(item) = KeyOf(a)
                        /\ ~item.recorded
                        /\ RecordTime(item) <= now
                        /\ now <= RecordTime(item) + item.duration
                        /\ a.duration >= 0
                        /\ a.duration <= item.duration
                        /\ a.until <= RecordTime(item) + item.duration
                        /\ a.until = now + a.duration]_vars

\* A tick that came after the pass's start: the recording under way is
\* shorter than the pass the file holds, and the pass is marked.
C26_Witness ==
    /\ mode = "tick" /\ up
    /\ file.kind = "json"
    /\ \E j \in 1..Len(active) : \E i \in 1..Len(JSONparse(file.text)) :
          LET item == JSONparse(file.text)[i]
          IN  /\ KeyOf(item) = KeyOf(active[j])
              /\ item.recorded
              /\ active[j].duration >= 1
              /\ active[j].duration < item.duration

\* C27: the store never holds two passes of one satellite whose intervals
\* [start, start + duration) overlap.
C27_NoOverlap ==
    \A i, j \in 1..Len(Persisted) :
        (i < j /\ Persisted[i].satellite = Persisted[j].satellite) =>
            \/ RecordTime(Persisted[i]) + Persisted[i].duration <= RecordTime(Persisted[j])
            \/ RecordTime(Persisted[j]) + Persisted[j].duration <= RecordTime(Persisted[i])

C22_PersistFailure ==
    [][(Boot \/ BootCron \/ TickSchedule \/ (\E i \in timers : handleRecording(i))) =>
          \A k \in unmarked : k \in FileKeys(file') => k \in RecordedKeys(file')]_vars

\* C24: the in-progress flag is never left set: from any state in which a
\* recording is in progress, a state follows in which none is.
C24_FlagCleared == isRecording ~> ~isRecording

\* A recording in progress in a process that never crashed, after another
\* pass was recorded and its recording ended: the flag was cleared and a
\* later pass fired.
C24_Witness ==
    /\ up /\ crashes = 0
    /\ Len(active) = 1
    /\ \E k \in DOMAIN starts : starts[k] > 0 /\ k # KeyOf(active[1])

\* -------------------------------------------------------------- run claims
\* C21: a satellite whose elements are missing or unusable is passed over
\* and reported, and the passes of every other satellite are in the file
\* the run leaves.
C21_ErrorIsolation ==
    run.done =>
        \A sat \in Sats :
            IF run.tle[sat] = "ok"
            THEN \A raw \in {findSatellitePasses(sat, run.start)} :
                    \A i \in 1..Len(raw) : KeyOf(NewPass(sat, raw[i])) \in FileKeys(run.file)
            ELSE \E i \in 1..Len(run.errors) : run.errors[i][2] = sat

====
